---- MODULE Spec2Model ----
(***************************************************************************)
(* crosswords.py: a crossword grid as a constraint model handed to a       *)
(* CP-SAT solver.  The module holds                                        *)
(*   - load_words / word_to_numbers, as operators;                         *)
(*   - every constraint the script posts, as a predicate over the model's  *)
(*     variables (L, B, A, IA, D, ID, LLA, LLAB, LLD, LLDB), BoolVars      *)
(*     being 0/1 so that the sums read as in the source;                   *)
(*   - the script itself as a state machine: build the model (or die on an *)
(*     index out of range), solve, test the status, print the grid;        *)
(*   - table() on its own, with its auxiliary booleans b and is_assigned,  *)
(*     under SpecTable.                                                    *)
(* The solver is external.  Its search is a sequence of decisions, each    *)
(* one rejecting a partial assignment as soon as a posted constraint is    *)
(* violated on it; the complete assignments it reaches are the assignments *)
(* that satisfy the model.  A behaviour follows one branch of the search.  *)
(* Python lists are 0-based and kept so (functions over 0..n-1); tuples of *)
(* the word list are sequences, so component j of the source is j+1 here.  *)
(* A[l][r][c] and D[l][r][c] of the source are A[r][c][l] and D[r][c][l]   *)
(* here: the search assigns the indicators of a square together.           *)
(***************************************************************************)
EXTENDS Integers, Sequences, FiniteSets, TLC

VARIABLES
    rows, columns,      \* the grid's size (module level, lines 101-102)
    words,              \* the lines of wordlist.txt
    wordlist,           \* load_words(words): length -> tuples (letters.. , id)
    pc,                 \* where the script is
    cursor,             \* <<l, r, c>> of a loop of the script, and the
                        \* search's position <<r, c>> within a phase
    B, L,               \* black squares and letters
    A, IA, D, ID,       \* start indicators and word identifiers
    LLA, LLAB, LLD, LLDB,
    status_name,        \* solver.StatusName(status)
    reads,              \* how many solver.Value(L[r][c]) calls were made
    output,             \* the printed grid, a sequence of rows of characters
    tuples, variables, option, b, is_assigned, tpc   \* table() on its own

gridVars == <<B, L, A, IA, D, ID, LLA, LLAB, LLD, LLDB>>
progVars == <<rows, columns, words, wordlist, pc, cursor, status_name, reads, output>>
tableVars == <<tuples, variables, option, b, is_assigned, tpc>>
vars == <<progVars, gridVars, tableVars>>

(***************************************************************************)
(* Bounds: the grids have at most MaxCells squares.                         *)
(***************************************************************************)
MaxCells == 15

(***************************************************************************)
(* word_to_numbers: ' ABCDEFGHIJKLMNOPQRSTUVWXYZ'.find(letter) for the     *)
(* letters of word.upper().  str.find answers -1 for a character that is   *)
(* not in the string.                                                      *)
(***************************************************************************)
Alphabet ==
    <<" ", "A", "B", "C", "D", "E", "F", "G", "H", "I", "J", "K", "L", "M",
      "N", "O", "P", "Q", "R", "S", "T", "U", "V", "W", "X", "Y", "Z">>

LowerCase ==
    <<" ", "a", "b", "c", "d", "e", "f", "g", "h", "i", "j", "k", "l", "m",
      "n", "o", "p", "q", "r", "s", "t", "u", "v", "w", "x", "y", "z">>

upper(letter) ==
    IF \E i \in 2..Len(LowerCase) : LowerCase[i] = letter
    THEN Alphabet[CHOOSE i \in 2..Len(LowerCase) : LowerCase[i] = letter]
    ELSE letter

find(letter) ==
    IF \E i \in 1..Len(Alphabet) : Alphabet[i] = letter
    THEN (CHOOSE i \in 1..Len(Alphabet) : Alphabet[i] = letter) - 1
    ELSE -1

word_to_numbers(word) == [i \in 1..Len(word) |-> find(upper(word[i]))]

(***************************************************************************)
(* load_words: the identifier of a word is its line number (from 0), and   *)
(* it is appended to the word's numbers; words are grouped by length in    *)
(* file order.                                                             *)
(***************************************************************************)
RECURSIVE load_loop(_, _, _)
load_loop(ws, i, wl) ==
    IF i = Len(ws) THEN wl
    ELSE LET word == ws[i + 1]
             word_length == Len(word)
             t == Append(word_to_numbers(word), i)
         IN  load_loop(ws, i + 1,
                 IF word_length \in DOMAIN wl
                 THEN [wl EXCEPT ![word_length] = Append(@, t)]
                 ELSE [n \in DOMAIN wl \cup {word_length} |->
                          IF n = word_length THEN <<t>> ELSE wl[n]])

EmptyDict == [n \in {} |-> <<>>]

load_words(ws) == load_loop(ws, 0, EmptyDict)


(***************************************************************************)
(* Python's range(n), a list index that is in range (a negative index      *)
(* counts from the end), and min.                                          *)
(***************************************************************************)
range(n) == 0..(n - 1)

valid_index(i, n) == -n <= i /\ i < n

min(x, y) == IF x <= y THEN x ELSE y

Rows == range(rows)
Cols == range(columns)
Cells == Rows \X Cols

(* The value of LinearExpr.Sum over 0/1 variables, ones being those of     *)
(* them that are 1: their number.                                          *)
Sum(ones) == Cardinality(ones)

NumWords == Len(words)

(* Domain of IA[r][c] and ID[r][c] (lines 130, 189). *)
IdDomain == 0..(NumWords + rows * columns * 2)

(***************************************************************************)
(* table(model, variables, tuples, option), lines 55-97, as the constraint *)
(* it posts over variables, option and its own b and is_assigned.          *)
(*   vs: the variables' values, vs[j+1] for variables[j];                  *)
(*   tb[i], i in range(len(tuples)); asg[i][j], j in range(max_value+1).   *)
(***************************************************************************)
max_value(ts) ==
    CHOOSE m \in UNION {{ts[i][j] : j \in DOMAIN ts[i]} : i \in DOMAIN ts} :
        \A i \in DOMAIN ts : \A j \in DOMAIN ts[i] : ts[i][j] <= m

possible_values(ts, i) == {ts[n][i + 1] : n \in DOMAIN ts}

(* Lines 77-81. *)
table_impossible(ts, vs, opt, asg) ==
    \A i \in range(Len(vs)) : \A j \in range(max_value(ts) + 1) :
        j \notin possible_values(ts, i) => (opt = 1 => asg[i][j] = 0)

(* Lines 83-85. *)
table_one_value(ts, vs, opt, asg) ==
    \A i \in range(Len(vs)) :
        opt = 1 =>
            Sum({j \in range(max_value(ts) + 1) : asg[i][j] = 1}) = 1

(* Lines 87-90. *)
table_link(ts, vs, asg) ==
    \A i \in range(Len(vs)) : \A j \in range(max_value(ts) + 1) :
        asg[i][j] = 1 => vs[i + 1] = j

(* Lines 92-94. *)
table_tuple(ts, tb, asg) ==
    \A i \in range(Len(ts)) :
        tb[i] = 1 => \A j \in range(Len(ts[i + 1])) : asg[j][ts[i + 1][j + 1]] = 1

(* Lines 96-97 with <= for ==: no tuple need be chosen. *)
table_at_most_one_tuple(ts, opt, tb) ==
    opt = 1 => Sum({i \in range(Len(ts)) : tb[i] = 1}) <= 1

(* Lines 96-97. *)
table_one_tuple(ts, opt, tb) ==
    opt = 1 => Sum({i \in range(Len(ts)) : tb[i] = 1}) = 1

table(vs, ts, opt, tb, asg) ==
    /\ table_impossible(ts, vs, opt, asg)
    /\ table_one_value(ts, vs, opt, asg)
    /\ table_link(ts, vs, asg)
    /\ table_tuple(ts, tb, asg)
    /\ table_one_tuple(ts, opt, tb)

(* (table_positions is table_domains without lines 92-97: each variable    *)
(* takes a value some tuple has at its position, not one tuple's values.)  *)
(* What table() leaves of the variables and the option once b and          *)
(* is_assigned are projected away: under the option the values are those   *)
(* of a tuple (TableProjection, under SpecTable, states the two agree).    *)
(* During the search a variable has a domain, the values still open to it: *)
(* under the option some tuple must lie within the domains.  With every    *)
(* domain a single value this is the constraint itself.                    *)
table_positions(doms, ts, opt) ==
    opt = 1 => \A j \in DOMAIN doms : \E i \in DOMAIN ts : ts[i][j] \in doms[j]

table_domains(doms, ts, opt) ==
    opt = 1 => \E i \in DOMAIN ts : \A j \in DOMAIN doms : ts[i][j] \in doms[j]

table_accepts(vs, ts, opt) == table_domains([j \in DOMAIN vs |-> {vs[j]}], ts, opt)

(***************************************************************************)
(* The grid's constraints.  Each takes the arrays it reads as parameters,  *)
(* so that the search can test a candidate before it commits to it; the    *)
(* model as the script posts it is ModelHolds below, over the variables.   *)
(***************************************************************************)

(* The link with line 120 left out: a black square may hold a letter. *)
link_value_white_only(black, v) == black = 0 => v # 0

(* Link B and L (lines 117-121), for one square: black is B[r][c] and v    *)
(* is L[r][c].                                                             *)
link_value(black, v) ==
    /\ black = 1 => v = 0
    /\ black = 0 => v # 0

link_BL(bb, ll, r, c) == link_value(bb[r][c], ll[r][c])

(* The domain of L[r][c] (line 108) and of an identifier while B is        *)
(* assigned and the squares of known are: a known square has its value, a  *)
(* square not yet known the values the link with B leaves it.              *)
linked_letters(black) == {v \in 0..26 : link_value(black, v)}

black_letters == linked_letters(1)

white_letters == linked_letters(0)

letter_domain(bb, ll, known, r, c) ==
    IF <<r, c>> \in known THEN {ll[r][c]}
    ELSE IF bb[r][c] = 1 THEN black_letters ELSE white_letters

id_domain(ii, known, r, c) ==
    IF <<r, c>> \in known THEN {ii[r][c]} ELSE IdDomain

(* The start indicators summed to 1 under A[l][r][c], as <<i, column>>     *)
(* (lines 150-176): the four boundary cases.                               *)
across_window(l, r, c) ==
    IF l = columns
    THEN range(columns + 1) \X {c + j : j \in range(columns - c)}
    ELSE IF c = 0
    THEN range(columns + 1) \X {c + j : j \in range(l + 1)}
    ELSE IF c + l = columns
    THEN range(columns + 1) \X {c + j : j \in range(columns - c)}
    ELSE range(columns + 1) \X {c - 1 + j : j \in range(l + 2)}

(* Whether the across loop reaches its else branch for (l, r, c): the      *)
(* length is in the word list and the word fits (lines 139-149).           *)
across_fits(l, c) == l \in DOMAIN wordlist /\ ~(l > columns - c)

(* Lines 135-176 for one (l, r, c), the table apart. *)
across_placement(a, l, r, c) ==
    IF l \notin DOMAIN wordlist THEN a[r][c][l] = 0
    ELSE IF l > columns - c THEN a[r][c][l] = 0
    ELSE a[r][c][l] = 1 =>
            Sum({p \in across_window(l, r, c) : a[r][p[2]][p[1]] = 1}) = 1

(* Line 180: the table over L[r][c..c+l-1] and IA[r][c], under A[l][r][c]. *)
across_table(a, bb, ll, ia, known, l, r, c) ==
    across_fits(l, c) =>
        table_domains(
            [i \in 1..(l + 1) |->
                IF i <= l THEN letter_domain(bb, ll, known, r, c + i - 1)
                ELSE id_domain(ia, known, r, c)],
            wordlist[l], a[r][c][l])

(* Lines 205-235, 239: the same down a column; a window is <<i, row>>. *)
down_window(l, r, c) ==
    IF l = rows
    THEN range(rows + 1) \X {r + j : j \in range(rows - r)}
    ELSE IF r = 0
    THEN range(rows + 1) \X {r + j : j \in range(l + 1)}
    ELSE IF r + l = rows
    THEN range(rows + 1) \X {r + j : j \in range(rows - r)}
    ELSE range(rows + 1) \X {r - 1 + j : j \in range(l + 2)}

down_fits(l, r) == l \in DOMAIN wordlist /\ ~(l > rows - r)

down_placement(d, l, r, c) ==
    IF l \notin DOMAIN wordlist THEN d[r][c][l] = 0
    ELSE IF l > rows - r THEN d[r][c][l] = 0
    ELSE d[r][c][l] = 1 =>
            Sum({p \in down_window(l, r, c) : d[p[2]][c][p[1]] = 1}) = 1

down_table(d, bb, ll, id, known, l, r, c) ==
    down_fits(l, r) =>
        table_domains(
            [i \in 1..(l + 1) |->
                IF i <= l THEN letter_domain(bb, ll, known, r + i - 1, c)
                ELSE id_domain(id, known, r, c)],
            wordlist[l], d[r][c][l])

(* AddAllDifferent over every IA and ID (lines 241-247), on the squares of *)
(* S: the 2 * |S| variables take 2 * |S| values.                           *)
id_values(ia, id, S) ==
    {ia[p[1]][p[2]] : p \in S} \cup {id[p[1]][p[2]] : p \in S}

(* Lines 242-247 without the ID list. *)
all_different_across(ia, id, S) ==
    Cardinality({ia[p[1]][p[2]] : p \in S}) = Cardinality(S)

all_different(ia, id, S) == Cardinality(id_values(ia, id, S)) = 2 * Cardinality(S)

(* Lines 256-264 for one square: the two edge-adjacent equalities and the  *)
(* reified sum of the other squares.                                       *)
lone_across(bb, lla, r, c) ==
    /\ c = 0 => lla = bb[r][1]
    /\ c = columns - 1 => lla = bb[r][columns - 2]
    /\ c \in 1..(columns - 2) =>
          /\ lla = 1 => bb[r][c - 1] + bb[r][c + 1] = 2
          /\ lla = 0 => bb[r][c - 1] + bb[r][c + 1] <= 1

(* Lines 273-276 and 311-314 for one square. *)
lone_or_black(lone, black, llb) ==
    /\ llb = 1 => lone + black >= 1
    /\ llb = 0 => lone + black = 0

(* Lines 280-285: the starts that cover (r, c), as <<i, column>>. *)
across_cover(r, c) ==
    UNION {{<<i, c - j>> : j \in range(min(i, c + 1))} : i \in range(columns + 1)}

(* Line 285 with <= for ==. *)
across_covered_at_most(a, llab, r, c) ==
    llab = 0 => Sum({p \in across_cover(r, c) : a[r][p[2]][p[1]] = 1}) <= 1

across_covered(a, llab, r, c) ==
    llab = 0 => Sum({p \in across_cover(r, c) : a[r][p[2]][p[1]] = 1}) = 1

(* Lines 294-302. *)
lone_down(bb, lld, r, c) ==
    /\ r = 0 => lld = bb[1][c]
    /\ r = rows - 1 => lld = bb[rows - 2][c]
    /\ r \in 1..(rows - 2) =>
          /\ lld = 1 => bb[r - 1][c] + bb[r + 1][c] = 2
          /\ lld = 0 => bb[r - 1][c] + bb[r + 1][c] <= 1

(* Lines 318-323: the starts that cover (r, c), as <<i, row>>. *)
down_cover(r, c) ==
    UNION {{<<i, r - j>> : j \in range(min(i, r + 1))} : i \in range(rows + 1)}

(* Line 323 with <= for ==. *)
down_covered_at_most(d, lldb, r, c) ==
    lldb = 0 => Sum({p \in down_cover(r, c) : d[p[2]][c][p[1]] = 1}) <= 1

down_covered(d, lldb, r, c) ==
    lldb = 0 => Sum({p \in down_cover(r, c) : d[p[2]][c][p[1]] = 1}) = 1

(* Line 328 with 2 for 1. *)
lone_both_lax(lla, lld) == lla + lld <= 2

(* Lines 325-328. *)
lone_both(lla, lld) == lla + lld <= 1

(* Lines 330-338. *)
subgrid_limit(bb) ==
    (rows >= 3 /\ columns >= 3) =>
        \A r \in range(rows - 2) : \A c \in range(columns - 2) :
            Sum({p \in (r..(r + 2)) \X (c..(c + 2)) : bb[p[1]][p[2]] = 1}) <= 2

(* Line 344 rounding up. *)
black_limit_ceil(bb) ==
    Sum({p \in Cells : bb[p[1]][p[2]] = 1}) <= (rows * columns + 4) \div 5

(* Lines 340-344: int(rows*columns/5). *)
black_limit(bb) ==
    Sum({p \in Cells : bb[p[1]][p[2]] = 1}) <= (rows * columns) \div 5

(***************************************************************************)
(* The model as posted, over the variables: what a complete assignment     *)
(* must satisfy.                                                           *)
(***************************************************************************)
ModelHolds ==
    /\ \A p \in Cells : L[p[1]][p[2]] \in 0..26 /\ link_BL(B, L, p[1], p[2])
    /\ \A l \in range(columns + 1) : \A p \in Cells :
          /\ across_placement(A, l, p[1], p[2])
          /\ across_table(A, B, L, IA, Cells, l, p[1], p[2])
    /\ \A l \in range(rows + 1) : \A p \in Cells :
          /\ down_placement(D, l, p[1], p[2])
          /\ down_table(D, B, L, ID, Cells, l, p[1], p[2])
    /\ \A p \in Cells : IA[p[1]][p[2]] \in IdDomain /\ ID[p[1]][p[2]] \in IdDomain
    /\ all_different(IA, ID, Cells)
    /\ \A p \in Cells :
          LET r == p[1]
              c == p[2]
          IN  /\ lone_across(B, LLA[r][c], r, c)
              /\ lone_or_black(LLA[r][c], B[r][c], LLAB[r][c])
              /\ across_covered(A, LLAB[r][c], r, c)
              /\ lone_down(B, LLD[r][c], r, c)
              /\ lone_or_black(LLD[r][c], B[r][c], LLDB[r][c])
              /\ down_covered(D, LLDB[r][c], r, c)
              /\ lone_both(LLA[r][c], LLD[r][c])
    /\ subgrid_limit(B)
    /\ black_limit(B)


(***************************************************************************)
(* The inputs: the grid's size and the lines of wordlist.txt.              *)
(*   FileLone   a one-letter word, and one spelling under two identifiers  *)
(*   FileTwice  two spellings, each under two identifiers, in both cases   *)
(*   FileFive   words that fill 3x5 and 5x3 grids                          *)
(*   FileFour   words that fill 3x4 and 4x3 grids                          *)
(*   FileEmpty  no word at all                                             *)
(***************************************************************************)
FileLone ==
    << <<"A">>, <<"A", "B">>, <<"A", "B">>, <<"B", "A", "B">> >>

FileTwice ==
    << <<"a", "b">>, <<"A", "B">>, <<"b", "a">>, <<"B", "A">> >>

FileFive ==
    << <<"A", "A", "B", "B", "A">>, <<"B", "B", "A", "A", "B">>,
       <<"B", "A", "B">>, <<"A", "B", "B">>, <<"B", "A", "A">>,
       <<"B", "B", "A">>, <<"A", "A", "B">> >>

FileFour ==
    << <<"B", "A", "B">>, <<"A", "B", "B">>, <<"B", "A", "A">>,
       <<"B", "B", "A">>, <<"B", "A">>, <<"B", "B">>,
       <<"A", "B", "A", "B">> >>

FileEmpty == << >>

WordFiles == {FileLone, FileTwice, FileFive, FileFour, FileEmpty}

Zeros(S, T) == [r \in S |-> [c \in T |-> 0]]

NoStarts(S, T, n) == [r \in S |-> [c \in T |-> [l \in range(n + 1) |-> 0]]]

NoTable ==
    /\ tuples = << >>
    /\ variables = << >>
    /\ option = 0
    /\ b = << >>
    /\ is_assigned = << >>
    /\ tpc = "off"

(* Lines 100-102: the word list is loaded and the size set before the      *)
(* model is built.  No variable of the model has a value yet.              *)
Init ==
    /\ rows \in 1..MaxCells
    /\ columns \in 1..MaxCells
    /\ rows * columns <= MaxCells
    /\ words \in WordFiles
    /\ wordlist = load_words(words)
    /\ pc = "build_across"
    /\ cursor = <<0, 0, 0>>
    /\ B = Zeros(Rows, Cols)
    /\ L = Zeros(Rows, Cols)
    /\ A = NoStarts(Rows, Cols, columns)
    /\ IA = Zeros(Rows, Cols)
    /\ D = NoStarts(Rows, Cols, rows)
    /\ ID = Zeros(Rows, Cols)
    /\ LLA = Zeros(Rows, Cols)
    /\ LLAB = Zeros(Rows, Cols)
    /\ LLD = Zeros(Rows, Cols)
    /\ LLDB = Zeros(Rows, Cols)
    /\ status_name = "none"
    /\ reads = 0
    /\ output = << >>
    /\ NoTable

(***************************************************************************)
(* Building the model, in the order of the script.  The across loop and    *)
(* the down loop post their constraints one (l, r, c) at a time; every     *)
(* index they compute is in range.  The rest (lines 241-344) is one step:  *)
(* on a grid one square wide or high the neighbour of an edge-adjacent     *)
(* square is out of range, B[r][1] and B[r][columns-2] (lines 258-259),    *)
(* B[1][c] and B[rows-2][c] (lines 296-297), each <<index, length>> below, *)
(* and the script dies there.                                              *)
(***************************************************************************)
next_index(n, l, r, c) ==
    IF c + 1 < columns THEN <<l, r, c + 1>>
    ELSE IF r + 1 < rows THEN <<l, r + 1, 0>>
    ELSE IF l < n THEN <<l + 1, 0, 0>>
    ELSE <<0, 0, 0>>

last_index(n, l, r, c) == l = n /\ r = rows - 1 /\ c = columns - 1

BuildAcross ==
    /\ pc = "build_across"
    /\ cursor' = next_index(columns, cursor[1], cursor[2], cursor[3])
    /\ pc' = IF last_index(columns, cursor[1], cursor[2], cursor[3])
             THEN "build_down" ELSE "build_across"
    /\ UNCHANGED <<rows, columns, words, wordlist, status_name, reads, output>>
    /\ UNCHANGED gridVars
    /\ UNCHANGED tableVars

BuildDown ==
    /\ pc = "build_down"
    /\ cursor' = next_index(rows, cursor[1], cursor[2], cursor[3])
    /\ pc' = IF last_index(rows, cursor[1], cursor[2], cursor[3])
             THEN "build_lone" ELSE "build_down"
    /\ UNCHANGED <<rows, columns, words, wordlist, status_name, reads, output>>
    /\ UNCHANGED gridVars
    /\ UNCHANGED tableVars

edge_indices ==
    {<<1, columns>>, <<columns - 2, columns>>, <<1, rows>>, <<rows - 2, rows>>}

build_raises == \E p \in edge_indices : ~valid_index(p[1], p[2])

BuildLone ==
    /\ pc = "build_lone"
    /\ pc' = IF build_raises THEN "IndexError" ELSE "solve_B"
    /\ cursor' = <<0, 0>>
    /\ UNCHANGED <<rows, columns, words, wordlist, status_name, reads, output>>
    /\ UNCHANGED gridVars
    /\ UNCHANGED tableVars

(***************************************************************************)
(* solver.Solve(model), line 347: the search.  Four phases, each walking   *)
(* the grid: the black squares row by row; the across flags and start      *)
(* indicators along the rows; the down ones along the columns; the letter  *)
(* and the two identifiers of each square.  A flag not yet assigned is 0.  *)
(* A candidate is rejected when a                                          *)
(* constraint fails on the part assigned so far: a sum of 0/1 variables    *)
(* with the unassigned ones still 0 that exceeds its bound exceeds it on   *)
(* every completion, and a table with no tuple within the domains has none *)
(* on any.                                                                 *)
(***************************************************************************)
next_cell(r, c) ==
    IF c + 1 < columns THEN <<r, c + 1>> ELSE <<r + 1, 0>>

next_cell_down(r, c) ==
    IF r + 1 < rows THEN <<r + 1, c>> ELSE <<0, c + 1>>

last_cell(r, c) == r = rows - 1 /\ c = columns - 1

(* The orientation the search takes first is the one with the longer      *)
(* lines; the other follows, then the letters.                             *)
first_phase == IF rows > columns THEN "solve_D" ELSE "solve_A"

phase_after(phase) ==
    IF phase # first_phase THEN "solve_L"
    ELSE IF phase = "solve_A" THEN "solve_D" ELSE "solve_A"

(* The squares up to and including (r, c), row by row. *)
assigned(r, c) == {p \in Cells : p[1] < r \/ (p[1] = r /\ p[2] <= c)}

SolveB ==
    /\ pc = "solve_B"
    /\ LET r == cursor[1]
       IN  \E row \in [Cols -> {0, 1}] :
              LET bb == [B EXCEPT ![r] = row]
              IN  /\ black_limit(bb)
                  /\ subgrid_limit(bb)
                  /\ B' = bb
                  /\ cursor' = IF r = rows - 1 THEN <<0, 0>> ELSE <<r + 1, 0>>
                  /\ pc' = IF r = rows - 1 THEN first_phase ELSE "solve_B"
    /\ UNCHANGED <<rows, columns, words, wordlist, status_name, reads, output>>
    /\ UNCHANGED <<L, A, IA, D, ID, LLA, LLAB, LLD, LLDB>>
    /\ UNCHANGED tableVars

SolveA ==
    /\ pc = "solve_A"
    /\ LET r == cursor[1]
           c == cursor[2]
       IN  \E lla, llab \in {0, 1} :
           /\ lone_across(B, lla, r, c)
           /\ lone_or_black(lla, B[r][c], llab)
           /\ lone_both(lla, LLD[r][c])
           /\ \E av \in [range(columns + 1) -> {0, 1}] :
              LET a == [A EXCEPT ![r][c] = av]
              IN  /\ \A l \in range(columns + 1) :
                         /\ across_placement(a, l, r, c)
                         /\ across_table(a, B, L, IA, {}, l, r, c)
                  /\ \A l \in range(columns + 1) : \A cc \in 0..(c - 1) :
                         across_placement(a, l, r, cc)
                  /\ across_covered(a, llab, r, c)
                  /\ A' = a
                  /\ LLA' = [LLA EXCEPT ![r][c] = lla]
                  /\ LLAB' = [LLAB EXCEPT ![r][c] = llab]
           /\ cursor' = IF last_cell(r, c) THEN <<0, 0>> ELSE next_cell(r, c)
           /\ pc' = IF last_cell(r, c) THEN phase_after("solve_A") ELSE "solve_A"
    /\ UNCHANGED <<rows, columns, words, wordlist, status_name, reads, output>>
    /\ UNCHANGED <<B, L, IA, D, ID, LLD, LLDB>>
    /\ UNCHANGED tableVars

SolveD ==
    /\ pc = "solve_D"
    /\ LET r == cursor[1]
           c == cursor[2]
       IN  \E lld, lldb \in {0, 1} :
           /\ lone_down(B, lld, r, c)
           /\ lone_or_black(lld, B[r][c], lldb)
           /\ lone_both(LLA[r][c], lld)
           /\ \E dv \in [range(rows + 1) -> {0, 1}] :
              LET d == [D EXCEPT ![r][c] = dv]
              IN  /\ \A l \in range(rows + 1) :
                         /\ down_placement(d, l, r, c)
                         /\ down_table(d, B, L, ID, {}, l, r, c)
                  /\ \A l \in range(rows + 1) : \A rr \in 0..(r - 1) :
                         down_placement(d, l, rr, c)
                  /\ down_covered(d, lldb, r, c)
                  /\ D' = d
                  /\ LLD' = [LLD EXCEPT ![r][c] = lld]
                  /\ LLDB' = [LLDB EXCEPT ![r][c] = lldb]
           /\ cursor' = IF last_cell(r, c) THEN <<0, 0>> ELSE next_cell_down(r, c)
           /\ pc' = IF last_cell(r, c) THEN phase_after("solve_D") ELSE "solve_D"
    /\ UNCHANGED <<rows, columns, words, wordlist, status_name, reads, output>>
    /\ UNCHANGED <<B, L, A, IA, ID, LLA, LLAB>>
    /\ UNCHANGED tableVars

(* An identifier no table constrains (no start is active at its square) is *)
(* held only by AllDifferent.  The values NumWords.. of its domain are no  *)
(* word's identifier and there is one for each of the 2*rows*columns       *)
(* identifier variables, so it always has a value left; the search gives   *)
(* it that one, the assignments that differ in it alone being the same on  *)
(* everything else.                                                        *)
spare_id(o, r, c) == NumWords + o * rows * columns + r * columns + c

id_choices(active, spare) == IF active THEN IdDomain ELSE {spare}

SolveL ==
    /\ pc = "solve_L"
    /\ LET r == cursor[1]
           c == cursor[2]
           known == assigned(r, c)
       IN  \E v \in 0..26 :
           LET ll == [L EXCEPT ![r][c] = v]
           IN
           /\ link_BL(B, ll, r, c)
           /\ \A l \in range(columns + 1) : \A cc \in 0..(c - 1) :
                  across_table(A, B, ll, IA, known, l, r, cc)
           /\ \A l \in range(rows + 1) : \A rr \in 0..(r - 1) :
                  down_table(D, B, ll, ID, known, l, rr, c)
           /\ \E x \in id_choices(\E l \in range(columns + 1) : A[r][c][l] = 1,
                                  spare_id(0, r, c)) :
              LET ia == [IA EXCEPT ![r][c] = x]
              IN
              /\ \A l \in range(columns + 1) :
                     across_table(A, B, ll, ia, known, l, r, c)
              /\ \E y \in id_choices(\E l \in range(rows + 1) : D[r][c][l] = 1,
                                     spare_id(1, r, c)) :
                 LET id == [ID EXCEPT ![r][c] = y]
                 IN
                 /\ \A l \in range(rows + 1) :
                        down_table(D, B, ll, id, known, l, r, c)
                 /\ all_different(ia, id, known)
                 /\ L' = ll
                 /\ IA' = ia
                 /\ ID' = id
           /\ cursor' = IF last_cell(r, c) THEN cursor ELSE next_cell(r, c)
           /\ pc' = IF last_cell(r, c) THEN "found" ELSE "solve_L"
    /\ UNCHANGED <<rows, columns, words, wordlist, status_name, reads, output>>
    /\ UNCHANGED <<B, A, D, LLA, LLAB, LLD, LLDB>>
    /\ UNCHANGED tableVars

Searching == pc \in {"solve_B", "solve_A", "solve_D", "solve_L"}

(* The solver holds a complete assignment: the search has found one, and   *)
(* the status it returns for one is OPTIMAL or FEASIBLE.                   *)
Solved == pc = "found" \/ status_name \in {"OPTIMAL", "FEASIBLE"}


(***************************************************************************)
(* The status Solve returns (lines 347-348).  With an assignment in hand   *)
(* it is OPTIMAL or FEASIBLE.  Without one: MODEL_INVALID before any       *)
(* search, UNKNOWN when the search is given up, INFEASIBLE when it is      *)
(* exhausted.  A behaviour follows one branch and cannot tell the last two *)
(* apart, so either may end the search anywhere.  The solver then holds no *)
(* values.                                                                 *)
(***************************************************************************)
SolverSucceeds ==
    /\ pc = "found"
    /\ status_name' \in {"OPTIMAL", "FEASIBLE"}
    /\ pc' = "status"
    /\ UNCHANGED <<rows, columns, words, wordlist, cursor, reads, output>>
    /\ UNCHANGED gridVars
    /\ UNCHANGED tableVars

failure_status ==
    {"UNKNOWN", "INFEASIBLE"}
        \cup (IF pc = "solve_B" /\ cursor = <<0, 0>> THEN {"MODEL_INVALID"} ELSE {})

SolverFails ==
    /\ Searching
    /\ status_name' \in failure_status
    /\ pc' = "status"
    /\ cursor' = <<0, 0>>
    /\ B' = Zeros(Rows, Cols)
    /\ L' = Zeros(Rows, Cols)
    /\ A' = NoStarts(Rows, Cols, columns)
    /\ IA' = Zeros(Rows, Cols)
    /\ D' = NoStarts(Rows, Cols, rows)
    /\ ID' = Zeros(Rows, Cols)
    /\ LLA' = Zeros(Rows, Cols)
    /\ LLAB' = Zeros(Rows, Cols)
    /\ LLD' = Zeros(Rows, Cols)
    /\ LLDB' = Zeros(Rows, Cols)
    /\ UNCHANGED <<rows, columns, words, wordlist, reads, output>>
    /\ UNCHANGED tableVars

(***************************************************************************)
(* Lines 352-359: anything but OPTIMAL ends the run; OPTIMAL prints the    *)
(* grid, one solver.Value(L[r][c]) per square.                             *)
(***************************************************************************)
(* Line 352 accepting FEASIBLE too. *)
is_problem_unless_feasible(name) == name \notin {"OPTIMAL", "FEASIBLE"}

is_problem(name) == name # "OPTIMAL"

Display ==
    <<".", "A", "B", "C", "D", "E", "F", "G", "H", "I", "J", "K", "L", "M",
      "N", "O", "P", "Q", "R", "S", "T", "U", "V", "W", "X", "Y", "Z">>

Exit ==
    /\ pc = "status"
    /\ is_problem(status_name)
    /\ pc' = "exit"
    /\ UNCHANGED <<rows, columns, words, wordlist, cursor, status_name, reads, output>>
    /\ UNCHANGED gridVars
    /\ UNCHANGED tableVars

PrintGrid ==
    /\ pc = "status"
    /\ ~is_problem(status_name)
    /\ output' = [r \in 1..rows |-> [c \in 1..columns |-> Display[L[r - 1][c - 1] + 1]]]
    /\ reads' = rows * columns
    /\ pc' = "printed"
    /\ UNCHANGED <<rows, columns, words, wordlist, cursor, status_name>>
    /\ UNCHANGED gridVars
    /\ UNCHANGED tableVars

Next ==
    \/ BuildAcross
    \/ BuildDown
    \/ BuildLone
    \/ SolveB
    \/ SolveA
    \/ SolveD
    \/ SolveL
    \/ SolverSucceeds
    \/ SolverFails
    \/ Exit
    \/ PrintGrid

Spec == Init /\ [][Next]_vars

(* Every assignment the search completes satisfies the model as posted. *)
SearchIsSound == Solved => ModelHolds

(***************************************************************************)
(* table() on its own: a list of tuples as load_words makes them, values   *)
(* for the variables, the option, and then the solver's answer on b and    *)
(* is_assigned: an assignment of them that satisfies what table() posts,   *)
(* or none.                                                                *)
(***************************************************************************)
MaxValue == 3

FileSwap == << <<"A", "B">>, <<"B", "A">> >>

TableLists ==
    {load_words(FileLone)[1], load_words(FileLone)[2], load_words(FileSwap)[2]}

InitTable ==
    /\ tuples \in TableLists
    /\ variables \in [1..Len(tuples[1]) -> 0..MaxValue]
    /\ option \in {0, 1}
    /\ b = << >>
    /\ is_assigned = << >>
    /\ tpc = "posted"
    /\ rows = 0
    /\ columns = 0
    /\ words = << >>
    /\ wordlist = EmptyDict
    /\ pc = "off"
    /\ cursor = <<0, 0>>
    /\ B = << >>
    /\ L = << >>
    /\ A = << >>
    /\ IA = << >>
    /\ D = << >>
    /\ ID = << >>
    /\ LLA = << >>
    /\ LLAB = << >>
    /\ LLD = << >>
    /\ LLDB = << >>
    /\ status_name = "none"
    /\ reads = 0
    /\ output = << >>

b_values == [range(Len(tuples)) -> {0, 1}]

is_assigned_values ==
    [range(Len(variables)) -> [range(max_value(tuples) + 1) -> {0, 1}]]

TableSolve ==
    /\ tpc = "posted"
    /\ \E tb \in b_values : \E asg \in is_assigned_values :
          /\ table(variables, tuples, option, tb, asg)
          /\ b' = tb
          /\ is_assigned' = asg
    /\ tpc' = "sat"
    /\ UNCHANGED <<tuples, variables, option>>
    /\ UNCHANGED progVars
    /\ UNCHANGED gridVars

TableRefuse ==
    /\ tpc = "posted"
    /\ ~ \E tb \in b_values : \E asg \in is_assigned_values :
            table(variables, tuples, option, tb, asg)
    /\ tpc' = "unsat"
    /\ UNCHANGED <<tuples, variables, option, b, is_assigned>>
    /\ UNCHANGED progVars
    /\ UNCHANGED gridVars

NextTable ==
    \/ TableSolve
    \/ TableRefuse

SpecTable == InitTable /\ [][NextTable]_vars

(* b and is_assigned projected away, table() is table_accepts: the search  *)
(* of Spec tests the tables through it.                                    *)
TableProjection ==
    /\ tpc = "sat" => table_accepts(variables, tuples, option)
    /\ tpc = "unsat" => ~table_accepts(variables, tuples, option)

(***************************************************************************)
(* The grid as a reader sees it, from B and L alone.                       *)
(***************************************************************************)
(* The n squares from (r, c) rightwards (downwards) are letters, and the   *)
(* square before them and the square after are black or off the grid.      *)
across_run(r, c, n) ==
    /\ c + n <= columns
    /\ \A j \in range(n) : B[r][c + j] = 0
    /\ c = 0 \/ B[r][c - 1] = 1
    /\ c + n = columns \/ B[r][c + n] = 1

down_run(r, c, n) ==
    /\ r + n <= rows
    /\ \A j \in range(n) : B[r + j][c] = 0
    /\ r = 0 \/ B[r - 1][c] = 1
    /\ r + n = rows \/ B[r + n][c] = 1

(* Line i of the file has n characters, and run[j], printed, is its j-th   *)
(* in upper case.                                                          *)
spells(i, n, run) ==
    /\ Len(words[i]) = n
    /\ \A j \in range(n) : Display[run[j] + 1] = upper(words[i][j + 1])

across_starts == {p \in Cells : \E l \in range(columns + 1) : A[p[1]][p[2]][l] = 1}

down_starts == {p \in Cells : \E l \in range(rows + 1) : D[p[1]][p[2]][l] = 1}

(* The starts whose extent holds (r, c), as <<l, first column or row>>. *)
across_over(r, c) ==
    {q \in range(columns + 1) \X Cols :
        q[2] <= c /\ c < q[2] + q[1] /\ A[r][q[2]][q[1]] = 1}

down_over(r, c) ==
    {q \in range(rows + 1) \X Rows :
        q[2] <= r /\ r < q[2] + q[1] /\ D[q[2]][c][q[1]] = 1}

blacks(S) == {p \in S : B[p[1]][p[2]] = 1}

letters == Cells \ blacks(Cells)

windows == {(r..(r + 2)) \X (c..(c + 2)) : r \in range(rows - 2), c \in range(columns - 2)}

adjacent(p, q) ==
    \/ p[1] = q[1] /\ p[2] - q[2] \in {-1, 1}
    \/ p[2] = q[2] /\ p[1] - q[1] \in {-1, 1}

(* The letters one can walk to from those of S, square to adjacent square. *)
RECURSIVE region(_)
region(S) ==
    LET T == S \cup {q \in letters : \E p \in S : adjacent(p, q)}
    IN  IF T = S THEN S ELSE region(T)

(* C1: in a solved grid every run of two or more squares between blacks or *)
(* edges, along a row or down a column, reads as a line of the word file   *)
(* of that length.                                                         *)
RunsSpellWords ==
    Solved =>
        \A p \in Cells :
            /\ \A n \in 2..columns :
                  across_run(p[1], p[2], n) =>
                      \E i \in 1..Len(words) :
                          spells(i, n, [j \in range(n) |-> L[p[1]][p[2] + j]])
            /\ \A n \in 2..rows :
                  down_run(p[1], p[2], n) =>
                      \E i \in 1..Len(words) :
                          spells(i, n, [j \in range(n) |-> L[p[1] + j][p[2]]])

(* A solved grid with a run shorter than its row and a run shorter than    *)
(* its column.                                                             *)
RunsSpellWordsWitness ==
    /\ Solved
    /\ \E p \in Cells : \E n \in 2..(columns - 1) : across_run(p[1], p[2], n)
    /\ \E p \in Cells : \E n \in 2..(rows - 1) : down_run(p[1], p[2], n)

(* C2: in a solved grid a letter that is not alone in its row lies in the  *)
(* extent of exactly one active across start, a letter not alone in its    *)
(* column in that of exactly one active down start, and no square is alone *)
(* both ways (LLA + LLD <= 1).                                             *)
CoveredExactlyOnce ==
    Solved =>
        \A p \in Cells :
            LET r == p[1]
                c == p[2]
            IN  /\ (B[r][c] = 0 /\ ~across_run(r, c, 1)) =>
                       Cardinality(across_over(r, c)) = 1
                /\ (B[r][c] = 0 /\ ~down_run(r, c, 1)) =>
                       Cardinality(down_over(r, c)) = 1
                /\ B[r][c] = 0 => ~(across_run(r, c, 1) /\ down_run(r, c, 1))
                /\ LLA[r][c] + LLD[r][c] <= 1

(* A solved grid with a letter alone in its row, one alone in its column,  *)
(* and one that is neither.                                                *)
CoveredExactlyOnceWitness ==
    /\ Solved
    /\ \E p \in letters : across_run(p[1], p[2], 1) /\ LLA[p[1]][p[2]] = 1
    /\ \E p \in letters : down_run(p[1], p[2], 1) /\ LLD[p[1]][p[2]] = 1
    /\ \E p \in letters : ~across_run(p[1], p[2], 1) /\ ~down_run(p[1], p[2], 1)

(* C3: in a solved grid the identifiers of the active starts, across and   *)
(* down together, are those of lines of the word file and no two are the   *)
(* same; the spellings are not compared.                                   *)
IdsAreDistinct ==
    Solved =>
        /\ \A p \in across_starts : IA[p[1]][p[2]] \in range(NumWords)
        /\ \A p \in down_starts : ID[p[1]][p[2]] \in range(NumWords)
        /\ \A p, q \in across_starts : p # q => IA[p[1]][p[2]] # IA[q[1]][q[2]]
        /\ \A p, q \in down_starts : p # q => ID[p[1]][p[2]] # ID[q[1]][q[2]]
        /\ \A p \in across_starts : \A q \in down_starts :
               IA[p[1]][p[2]] # ID[q[1]][q[2]]

(* A solved grid where two starts carry two lines of the file that spell   *)
(* the same.                                                               *)
IdsAreDistinctWitness ==
    /\ Solved
    /\ \E p \in across_starts : \E q \in across_starts \cup down_starts :
          \E x \in {IA[p[1]][p[2]]} : \E y \in {IA[q[1]][q[2]], ID[q[1]][q[2]]} :
              /\ x # y
              /\ x \in range(NumWords)
              /\ y \in range(NumWords)
              /\ word_to_numbers(words[x + 1]) = word_to_numbers(words[y + 1])

(* C4: with the option false table() refuses no values of the variables;   *)
(* with it true, the values it accepts are those of one tuple, letters and *)
(* identifier, and exactly one b[i] is true.                               *)
TableContract ==
    /\ tpc = "unsat" => option = 1
    /\ (tpc = "sat" /\ option = 1) =>
          /\ \E i \in DOMAIN tuples :
                \A j \in DOMAIN variables : variables[j] = tuples[i][j]
          /\ Cardinality({i \in DOMAIN b : b[i] = 1}) = 1

(* The option true, two tuples with the same letters, and the values       *)
(* accepted.                                                               *)
TableContractWitness ==
    /\ tpc = "sat"
    /\ option = 1
    /\ Len(tuples) = 2
    /\ tuples[1][1] = tuples[2][1]

(* C5, as amended: the grid is read and printed exactly when the status is *)
(* OPTIMAL; FEASIBLE, INFEASIBLE, UNKNOWN and MODEL_INVALID end the run    *)
(* with no letter read.                                                    *)
DecodedWhenOptimal ==
    /\ pc = "printed" => status_name = "OPTIMAL" /\ reads = rows * columns
    /\ pc = "exit" =>
          /\ status_name \in {"FEASIBLE", "INFEASIBLE", "UNKNOWN", "MODEL_INVALID"}
          /\ reads = 0
          /\ output = << >>
    /\ pc \notin {"printed"} => reads = 0

(* A run that ended on FEASIBLE with nothing read. *)
DecodedWhenOptimalWitness ==
    pc = "exit" /\ status_name = "FEASIBLE" /\ reads = 0

(* C5 as stated: the grid is read and printed exactly when the status is   *)
(* OPTIMAL or FEASIBLE.                                                    *)
DecodedWhenOptimalOrFeasible ==
    /\ pc = "printed" => status_name \in {"OPTIMAL", "FEASIBLE"}
    /\ pc = "exit" => status_name \in {"INFEASIBLE", "UNKNOWN", "MODEL_INVALID"}

(* C6 as stated: on the 1x1 grid the model is built and the run ends on    *)
(* INFEASIBLE, with no other failure.                                      *)
OneByOneIsInfeasible ==
    (rows = 1 /\ columns = 1) =>
        /\ pc # "IndexError"
        /\ pc \in {"status", "exit", "printed"} => status_name = "INFEASIBLE"

(* C7: in a solved grid at most floor(rows * columns / 5) squares are      *)
(* black, and at most 2 in any 3x3 window.                                 *)
BlackSquaresAreFew ==
    Solved =>
        /\ 5 * Cardinality(blacks(Cells)) <= rows * columns
        /\ \A w \in windows : Cardinality(blacks(w)) <= 2

(* A solved grid with as many blacks as the limit allows, two of them in   *)
(* one 3x3 window.                                                         *)
BlackSquaresAreFewWitness ==
    /\ Solved
    /\ 5 * (Cardinality(blacks(Cells)) + 1) > rows * columns
    /\ \E w \in windows : Cardinality(blacks(w)) = 2

(* C8, as amended: in a solved grid a start indicator of length 1 is true  *)
(* only where the word file has a one-letter line and the square is a      *)
(* letter alone in that direction, holding that line's letter.             *)
LengthOneOnlyAlone ==
    Solved =>
        \A p \in Cells :
            /\ A[p[1]][p[2]][1] = 1 =>
                  /\ across_run(p[1], p[2], 1)
                  /\ \E i \in 1..Len(words) : spells(i, 1, [j \in range(1) |-> L[p[1]][p[2]]])
            /\ D[p[1]][p[2]][1] = 1 =>
                  /\ down_run(p[1], p[2], 1)
                  /\ \E i \in 1..Len(words) : spells(i, 1, [j \in range(1) |-> L[p[1]][p[2]]])

(* A solved grid with a start of length 1 active. *)
LengthOneOnlyAloneWitness ==
    /\ Solved
    /\ \E p \in Cells : A[p[1]][p[2]][1] = 1 \/ D[p[1]][p[2]][1] = 1

(* C8 as stated: in a solved grid no start indicator of length 1 is true,  *)
(* whatever the word file.                                                 *)
NoLengthOneStart ==
    Solved => \A p \in Cells : A[p[1]][p[2]][1] = 0 /\ D[p[1]][p[2]][1] = 0

(* C9: in a solved grid, under an active start of length l the l squares   *)
(* of its extent are letters, no other start of its direction is active on *)
(* them, and the square before and the square after are black or off the   *)
(* grid.                                                                   *)
StartsAreFlanked ==
    Solved =>
        \A p \in Cells :
            LET r == p[1]
                c == p[2]
            IN  /\ \A l \in range(columns + 1) :
                      A[r][c][l] = 1 =>
                          /\ across_run(r, c, l)
                          /\ \A j \in range(l) : across_over(r, c + j) = {<<l, c>>}
                          /\ \A j \in range(l) : \A i \in range(columns + 1) :
                                 A[r][c + j][i] = 1 => (i = l /\ j = 0)
                /\ \A l \in range(rows + 1) :
                      D[r][c][l] = 1 =>
                          /\ down_run(r, c, l)
                          /\ \A j \in range(l) : down_over(r + j, c) = {<<l, r>>}
                          /\ \A j \in range(l) : \A i \in range(rows + 1) :
                                 D[r + j][c][i] = 1 => (i = l /\ j = 0)

(* A solved grid with an across start that fills its row and one that      *)
(* touches neither edge, a black square on each side.                      *)
StartsAreFlankedWitness ==
    /\ Solved
    /\ \E p \in Cells : A[p[1]][p[2]][columns] = 1
    /\ \E p \in Cells : \E l \in 1..(columns - 1) :
          /\ A[p[1]][p[2]][l] = 1
          /\ p[2] > 0
          /\ p[2] + l < columns
          /\ B[p[1]][p[2] - 1] = 1
          /\ B[p[1]][p[2] + l] = 1

(* C10: in a solved grid of three rows and three columns or more, every    *)
(* letter can be walked to from every other, square to adjacent square.    *)
LettersAreConnected ==
    (Solved /\ rows >= 3 /\ columns >= 3) =>
        \A p \in letters : region({p}) = letters

(* A solved grid at least 3x3 with two blacks that touch by a corner. *)
LettersAreConnectedWitness ==
    /\ Solved
    /\ rows >= 3
    /\ columns >= 3
    /\ \E p, q \in blacks(Cells) :
          p[1] - q[1] \in {-1, 1} /\ p[2] - q[2] \in {-1, 1}

====
